---- MODULE Spec2Model ----
(***************************************************************************)
(* Cache-and-forward engine of yahoo-finance-proxy (src/server.js, the     *)
(* variant with stale-on-error and request coalescing, lines 1-243).       *)
(*                                                                         *)
(* Node runs one job at a time.  A macrotask (an arriving request, an      *)
(* upstream response, a body read completing, a timer) runs to its first   *)
(* await; a promise that settles queues the continuations awaiting it, in  *)
(* the order they were registered, and the queue (mq) drains before the    *)
(* next macrotask.  Each action below is one such job.                     *)
(***************************************************************************)
EXTENDS Integers, Sequences, FiniteSets, TLC

\* ---------------------------------------------------------------- bounds
MaxReq == 3
MaxTicks == 2
MaxTries == 6

Reqs == 1..MaxReq
\* cache keys (upstream URLs)
Keys == {1, 2}

\* ------------------------------------------------------ program constants
\* e?.status of an error that carries no status (undefined)
NoStatus == 0
\* upstreamStatus ?? null in the 502 payload
Null == -1
\* res.headers.get("retry-after") when the header is absent (null)
NoHint == -1
\* tries passed by cachedForward
Tries == 2
BackoffCapMs == 10000
BackoffBaseMs == 500
DefaultStatus == 200
BadGateway == 502
DefaultBody == "{}"

\* the clock is read at multiples of the base backoff delay
TickMs == BackoffBaseMs

\* (CACHE_TTL_MS, STALE_TTL_MS) settings the process may be started with
Configs == { <<0, 500>> }
\* settings the environment can supply: Number(process.env.X || default)
\* takes any number, in either order
AnyConfigs == Configs \cup { <<500, 0>>, <<500, 500>> }
\* a setting whose stale window outlasts a whole failing call (two sleeps)
StaleConfigs == { <<0, 2000>> }
\* upstream answers to the requests served under that setting
StaleStatuses == {200, 429, 502, 503}
\* upstream answers: status codes, retry-after hints (seconds), body texts
Statuses == {200, 404, 429}
RetryStatuses == {200, 204, 404, 429, 500, 503}
Hints == {NoHint}
RetryHints == {NoHint, 0, 1, 20}
Bodies == {"", "A"}

VARIABLES
  now,        \* Date.now()
  cacheTtl,   \* CACHE_TTL_MS
  staleTtl,   \* STALE_TTL_MS
  cache,      \* the cache Map: key -> entry
  inflight,   \* the inflight Map: key -> promise (0: no entry)
  req,        \* the cachedForward invocations: request r's locals
  fetches,    \* the fetchWithRetry call and the promise p made by request r
  mq,         \* promise jobs queued, in order: the requests to resume
  sent,       \* the response written by the job that just ran, if any
  calls,      \* per key: fetchWithRetry calls made so far
  late        \* per key: a request came after the key's first fetch settled

vars == <<now, cacheTtl, staleTtl, cache, inflight, req, fetches, mq, sent, calls, late>>

Min(a, b) == IF a <= b THEN a ELSE b

NoEntry ==
  [has |-> FALSE, storedAt |-> 0, expiresAt |-> 0, staleUntil |-> 0,
   status |-> 0, bodyText |-> ""]

NothingSent ==
  [r |-> 0, key |-> 0, disp |-> "", status |-> 0, body |-> "", xerr |-> "",
   upstreamStatus |-> Null, waited |-> FALSE, fetched |-> FALSE]

NewReq ==
  [pc |-> "new", key |-> 0, await |-> 0, waited |-> FALSE, arrStaleOk |-> FALSE,
   arrStaleAhead |-> FALSE,
   arrEntry |-> NoEntry]

DoneReq == [NewReq EXCEPT !.pc = "done"]

NoFetch ==
  [state |-> "none", direct |-> FALSE, tries |-> 0, i |-> 0, gets |-> 0,
   retried |-> 0, sleeps |-> 0, timerAt |-> 0, lastStatus |-> NoStatus,
   resStatus |-> NoStatus, hint |-> NoHint, err |-> NoStatus,
   reactions |-> <<>>]

\* ------------------------------------------------------- pure functions
cacheGet(c, key) == c[key]

cacheSet(c, key, status, bodyText, t) ==
  [c EXCEPT ![key] =
     [has |-> TRUE, storedAt |-> t, expiresAt |-> t + cacheTtl,
      staleUntil |-> t + staleTtl, status |-> status, bodyText |-> bodyText]]

isFreshStrict(entry, t) == entry.has /\ t < entry.expiresAt

isFresh(entry, t) == entry.has /\ t <= entry.expiresAt

isStaleOkForever(entry, t) == entry.has

isStaleOk(entry, t) == entry.has /\ t <= entry.staleUntil

IsOkOrNotFound(status) == (status >= 200 /\ status <= 299) \/ status = 404

IsOk(status) == status >= 200 /\ status <= 299

RetryableAnyError(status) == status >= 400

Retryable(status) == status = 429 \/ (status >= 500 /\ status <= 599)

isRateLimitOrNoStatus(status) == status = 429 \/ status = NoStatus

isRateLimitOr5xxWithStatus(status) ==
  status = 429 \/ (status >= 500 /\ status <= 599)

isAnyErrorStatus(status) == status = NoStatus \/ status >= 400

isRateLimitOr5xx(status) ==
  status = 429 \/ (status >= 500 /\ status <= 599) \/ status = NoStatus

WaitMsUncapped(hint, i) ==
  IF hint # NoHint THEN hint * 1000 ELSE BackoffBaseMs * (2 ^ i)

WaitMs(hint, i) ==
  IF hint # NoHint
    THEN Min(BackoffCapMs, hint * 1000)
    ELSE Min(BackoffCapMs, BackoffBaseMs * (2 ^ i))

\* String(n) of a non-negative integer: its decimal digits
DecimalDigits == <<"0", "1", "2", "3", "4", "5", "6", "7", "8", "9">>

RECURSIVE String(_)
String(n) ==
  IF n < 10
    THEN DecimalDigits[n + 1]
    ELSE String(n \div 10) \o DecimalDigits[(n % 10) + 1]

\* String(upstreamStatus || "unknown")
StatusString(status) ==
  IF status = NoStatus THEN "unknown" ELSE String(status)

\* res.status(..).send(..) with the response headers that were set
Send(disp, status, body, xerr, upstreamStatus) ==
  [disp |-> disp, status |-> status, body |-> body, xerr |-> xerr,
   upstreamStatus |-> upstreamStatus]

\* step 1: the fresh entry is sent as it is
HitResponse(entry) == Send("HIT", entry.status, entry.bodyText, "", Null)

\* step 2: the entry read after the awaited promise fulfilled
AfterWaitResponse(after) ==
  Send("HIT-AFTER-WAIT", after.status, after.bodyText, "", Null)

\* step 3: fresh?.status || 200, fresh?.bodyText || "{}"
MissResponse(fresh) ==
  Send("MISS",
       IF fresh.has /\ fresh.status # 0 THEN fresh.status ELSE DefaultStatus,
       IF fresh.has /\ fresh.bodyText # "" THEN fresh.bodyText ELSE DefaultBody,
       "", Null)

\* steps 4 and 5: the catch block, e.status = errStatus, read at time t
FailureResponse(still, errStatus, t) ==
  IF isRateLimitOr5xx(errStatus) /\ isStaleOk(still, t)
    THEN Send("STALE", still.status, still.bodyText, StatusString(errStatus), Null)
    ELSE Send("502", BadGateway, "Bad gateway", "",
              IF errStatus = NoStatus THEN Null ELSE errStatus)

\* ------------------------------------------------------------- promises
Settled(f) == fetches[f].state \in {"fulfilled", "rejected"}

\* p of request f is pending
Pending(f) == fetches[f].state \in {"get", "sleep", "text", "body"}

\* the fetchWithRetry call of request f has neither returned nor thrown
Outstanding(f) == fetches[f].state \in {"get", "sleep", "text"}

\* a settled promise that nothing refers to any more is gone; after the last
\* queued job that holds for every settled p
Collect(fs) ==
  IF Len(mq) = 1
    THEN [f \in Reqs |->
            IF fs[f].state \in {"fulfilled", "rejected"} /\ ~fs[f].direct
              THEN NoFetch ELSE fs[f]]
    ELSE fs

\* ------------------------------------------------------- cachedForward
\* return res.status(..).send(..): the invocation ends, its locals are gone
Answer(r, rq, resp, fetched) ==
  /\ req' = [req EXCEPT ![r] = DoneReq]
  /\ sent' = [r |-> r, key |-> rq.key, disp |-> resp.disp, status |-> resp.status,
              body |-> resp.body, xerr |-> resp.xerr,
              upstreamStatus |-> resp.upstreamStatus, waited |-> rq.waited,
              fetched |-> fetched]

ServeHitEvicting(r, rq, entry) ==
  /\ Answer(r, rq, HitResponse(entry), FALSE)
  /\ cache' = [cache EXCEPT ![rq.key] = NoEntry]
  /\ UNCHANGED <<inflight, fetches, mq, calls>>

\* step 1, lines 136-141
ServeHit(r, rq, entry) ==
  /\ Answer(r, rq, HitResponse(entry), FALSE)
  /\ UNCHANGED <<cache, inflight, fetches, mq, calls>>

AwaitInflightUnheard(r, rq, k) ==
  LET p == inflight[k] IN
  /\ req' = [req EXCEPT ![r] = [rq EXCEPT !.pc = "waiting", !.await = p, !.waited = TRUE]]
  /\ IF Settled(p)
       THEN mq' = Append(mq, r) /\ fetches' = fetches
       ELSE fetches' = fetches /\ mq' = mq
  /\ sent' = NothingSent
  /\ UNCHANGED <<cache, inflight, calls>>

\* step 2, lines 144-146: await inflight.get(key)
AwaitInflight(r, rq, k) ==
  LET p == inflight[k] IN
  /\ req' = [req EXCEPT ![r] = [rq EXCEPT !.pc = "waiting", !.await = p, !.waited = TRUE]]
  /\ IF Settled(p)
       THEN mq' = Append(mq, r) /\ fetches' = fetches
       ELSE /\ fetches' = [fetches EXCEPT ![p].reactions = Append(@, r)]
            /\ mq' = mq
  /\ sent' = NothingSent
  /\ UNCHANGED <<cache, inflight, calls>>

\* step 3, lines 161-175: p is created (fetchWithRetry runs to its first
\* GET), registered, and awaited by its creator first
StartFetch(r, rq, k) ==
  /\ fetches' = Collect([fetches EXCEPT ![r] =
       [NoFetch EXCEPT !.state = "get", !.tries = Tries, !.gets = 1,
                       !.reactions = <<r>>]])
  /\ inflight' = [inflight EXCEPT ![k] = r]
  /\ req' = [req EXCEPT ![r] = [rq EXCEPT !.pc = "fetching", !.await = r]]
  /\ calls' = [calls EXCEPT ![k] = @ + 1]
  /\ sent' = NothingSent

ReleaseNothing(inf, k) == inf

\* finally { inflight.delete(key) }
Release(inf, k) == [inf EXCEPT ![k] = 0]

\* the only fetch made for key k so far is still registered and pending
FirstPending(k) == calls[k] = 1 /\ inflight[k] # 0

\* a request arrives: lines 131-175 up to the first await
Arrive(r, k) ==
  /\ mq = <<>>
  /\ req[r].pc = "new"
  /\ \A q \in Reqs : q < r => req[q].pc # "new"
  /\ \A f \in Reqs : ~fetches[f].direct
  /\ k <= Cardinality({j \in Keys : calls[j] > 0}) + 1
  /\ LET entry == cacheGet(cache, k)
         rq == [req[r] EXCEPT !.key = k, !.arrEntry = entry,
                             !.arrStaleOk = entry.has /\ now <= entry.staleUntil,
                             !.arrStaleAhead = entry.has /\ now < entry.staleUntil]
     IN IF isFresh(entry, now)
          THEN ServeHit(r, rq, entry)
          ELSE IF inflight[k] # 0
            THEN AwaitInflight(r, rq, k)
            ELSE StartFetch(r, rq, k) /\ UNCHANGED <<cache, mq>>
  /\ late' = [late EXCEPT ![k] = @ \/ (calls[k] > 0 /\ ~FirstPending(k))]
  /\ UNCHANGED <<now, cacheTtl, staleTtl>>

OwnerResumeRetrying(r) ==
  LET k == req[r].key
      p == fetches[req[r].await]
  IN IF p.state = "fulfilled"
       THEN /\ Answer(r, req[r], MissResponse(cacheGet(cache, k)), TRUE)
            /\ inflight' = Release(inflight, k)
            /\ fetches' = Collect(fetches)
            /\ UNCHANGED <<cache, calls>>
       ELSE StartFetch(r, req[r], k) /\ UNCHANGED cache

\* the continuation of `await p` in the request that created p, lines 175-207
OwnerResume(r) ==
  LET k == req[r].key
      p == fetches[req[r].await]
      resp == IF p.state = "fulfilled"
                THEN MissResponse(cacheGet(cache, k))
                ELSE FailureResponse(cacheGet(cache, k), p.err, now)
  IN /\ Answer(r, req[r], resp, TRUE)
     /\ inflight' = Release(inflight, k)
     /\ fetches' = Collect(fetches)
     /\ UNCHANGED <<cache, calls>>

\* the continuation of `await inflight.get(key)`, lines 147-175
WaiterResume(r) ==
  LET k == req[r].key
      p == fetches[req[r].await]
      after == cacheGet(cache, k)
  IN IF p.state = "fulfilled" /\ after.has
       THEN /\ Answer(r, req[r], AfterWaitResponse(after), FALSE)
            /\ fetches' = Collect(fetches)
            /\ UNCHANGED <<cache, inflight, calls>>
       ELSE StartFetch(r, req[r], k) /\ UNCHANGED cache

\* the next queued promise job
RunJob ==
  /\ mq # <<>>
  /\ LET r == Head(mq) IN
       IF req[r].pc = "fetching" THEN OwnerResume(r) ELSE WaiterResume(r)
  /\ mq' = Tail(mq)
  /\ UNCHANGED <<now, cacheTtl, staleTtl, late>>

\* ------------------------------------------------------- fetchWithRetry
\* the call's promise rejects with an error carrying status st
Reject(c, st) ==
  [c EXCEPT !.state = "rejected", !.err = st, !.i = 0, !.timerAt = 0,
            !.lastStatus = NoStatus, !.resStatus = NoStatus, !.hint = NoHint]

BackoffUnlessLast(c, st, hint, t) ==
  IF c.i + 1 < c.tries
    THEN [c EXCEPT !.state = "sleep", !.timerAt = t + WaitMs(hint, c.i),
                   !.retried = @ + 1, !.resStatus = st, !.hint = hint]
    ELSE [c EXCEPT !.state = "rejected", !.err = st, !.i = 0, !.retried = @ + 1]

\* lines 102-108: res is retryable, the timer of the backoff sleep is set
Backoff(c, st, hint, t) ==
  [c EXCEPT !.state = "sleep", !.timerAt = t + WaitMs(hint, c.i),
            !.retried = @ + 1, !.resStatus = st, !.hint = hint]

AfterSleepOneMore(c) ==
  IF c.i + 1 <= c.tries
    THEN [c EXCEPT !.state = "get", !.i = @ + 1, !.gets = @ + 1, !.sleeps = @ + 1,
                   !.timerAt = 0, !.lastStatus = c.resStatus,
                   !.resStatus = NoStatus, !.hint = NoHint]
    ELSE [Reject(c, c.resStatus) EXCEPT !.sleeps = @ + 1]

AfterSleepFirstError(c) ==
  LET lastErr == IF c.lastStatus # NoStatus THEN c.lastStatus ELSE c.resStatus
  IN IF c.i + 1 < c.tries
       THEN [c EXCEPT !.state = "get", !.i = @ + 1, !.gets = @ + 1,
                      !.sleeps = @ + 1, !.timerAt = 0, !.lastStatus = lastErr,
                      !.resStatus = NoStatus, !.hint = NoHint]
       ELSE [Reject(c, lastErr) EXCEPT !.sleeps = @ + 1]

\* lines 109-111 and 86-87, 122: after the sleep lastErr takes the status of
\* res, and the loop goes on to the next GET, or ends and throws lastErr
AfterSleep(c) ==
  IF c.i + 1 < c.tries
    THEN [c EXCEPT !.state = "get", !.i = @ + 1, !.gets = @ + 1, !.sleeps = @ + 1,
                   !.timerAt = 0, !.lastStatus = c.resStatus,
                   !.resStatus = NoStatus, !.hint = NoHint]
    ELSE [Reject(c, c.resStatus) EXCEPT !.sleeps = @ + 1]

\* line 114: a status that is not retried; the body is read for the message
ReadText(c, st) == [c EXCEPT !.state = "text", !.resStatus = st]

\* lines 99, 162-163: res.ok; the caller goes on to read the body
Return(c, st) ==
  [c EXCEPT !.state = IF c.direct THEN "returned" ELSE "body", !.resStatus = st,
            !.i = 0, !.lastStatus = NoStatus]

\* the upstream answers the outstanding GET with status st, lines 87-119
Respond(f, st, hint) ==
  /\ mq = <<>>
  /\ fetches[f].state = "get"
  /\ LET c == fetches[f]
         d == IF IsOk(st) THEN Return(c, st)
              ELSE IF Retryable(st) THEN Backoff(c, st, hint, now)
              ELSE ReadText(c, st)
     IN /\ fetches' = [fetches EXCEPT ![f] = d]
        /\ mq' = IF d.state = "rejected" THEN c.reactions ELSE mq
  /\ sent' = NothingSent
  /\ UNCHANGED <<now, cacheTtl, staleTtl, cache, inflight, req, calls, late>>

\* lines 114-119: res.text() settles (a failed read counts as ""), and the
\* error carrying the status is thrown
ErrorText(f) ==
  /\ mq = <<>>
  /\ fetches[f].state = "text"
  /\ fetches' = [fetches EXCEPT ![f] = Reject(@, @.resStatus)]
  /\ mq' = fetches[f].reactions
  /\ sent' = NothingSent
  /\ UNCHANGED <<now, cacheTtl, staleTtl, cache, inflight, req, calls, late>>

\* fetch() itself rejects (no response): the error has no status
NetworkError(f) ==
  /\ mq = <<>>
  /\ fetches[f].state = "get"
  /\ fetches' = [fetches EXCEPT ![f] = Reject(@, NoStatus)]
  /\ mq' = fetches[f].reactions
  /\ sent' = NothingSent
  /\ UNCHANGED <<now, cacheTtl, staleTtl, cache, inflight, req, calls, late>>

\* the backoff timer fires
TimerFire(f) ==
  /\ mq = <<>>
  /\ fetches[f].state = "sleep"
  /\ now >= fetches[f].timerAt
  /\ LET d == AfterSleep(fetches[f])
     IN /\ fetches' = [fetches EXCEPT ![f] = d]
        /\ mq' = IF d.state = "rejected" THEN d.reactions ELSE mq
  /\ sent' = NothingSent
  /\ UNCHANGED <<now, cacheTtl, staleTtl, cache, inflight, req, calls, late>>

\* lines 163-169: upstreamRes.text() resolves, the entry is stored, p fulfils
BodyOk(f, body) ==
  /\ mq = <<>>
  /\ fetches[f].state = "body"
  /\ cache' = cacheSet(cache, req[f].key, fetches[f].resStatus, body, now)
  /\ fetches' = [fetches EXCEPT ![f].state = "fulfilled"]
  /\ mq' = fetches[f].reactions
  /\ sent' = NothingSent
  /\ UNCHANGED <<now, cacheTtl, staleTtl, inflight, req, calls, late>>

\* line 163: upstreamRes.text() rejects, p rejects with a status-less error
BodyFail(f) ==
  /\ mq = <<>>
  /\ fetches[f].state = "body"
  /\ fetches' = [fetches EXCEPT ![f] = Reject(@, NoStatus)]
  /\ mq' = fetches[f].reactions
  /\ sent' = NothingSent
  /\ UNCHANGED <<now, cacheTtl, staleTtl, cache, inflight, req, calls, late>>

\* fetchWithRetry(url, {tries}) called on its own
CallFetch(f, tries) ==
  /\ fetches[f].state = "none"
  /\ fetches' = [fetches EXCEPT ![f] =
       IF tries > 0
         THEN [NoFetch EXCEPT !.state = "get", !.direct = TRUE, !.tries = tries,
                              !.gets = 1]
         ELSE [NoFetch EXCEPT !.state = "rejected", !.direct = TRUE]]
  /\ sent' = NothingSent
  /\ UNCHANGED <<now, cacheTtl, staleTtl, cache, inflight, req, mq, calls, late>>

\* ------------------------------------------------------------- the clock
Timers == { fetches[f].timerAt : f \in { g \in Reqs : fetches[g].state = "sleep" } }

\* time passes: the clock is read at multiples of TickMs, up to the horizon
\* or for as long as a timer is still to fire; a timer that is due fires
\* before the clock moves on
Advance ==
  /\ mq = <<>>
  /\ IF now < MaxTicks * TickMs THEN TRUE ELSE Timers # {}
  /\ \A t \in Timers : t > now
  /\ now' = now + TickMs
  /\ sent' = NothingSent
  /\ UNCHANGED <<cacheTtl, staleTtl, cache, inflight, req, fetches, mq, calls, late>>

\* --------------------------------------------------------- specifications
Init ==
  /\ now = 0
  /\ \E cfg \in Configs : cacheTtl = cfg[1] /\ staleTtl = cfg[2]
  /\ cache = [k \in Keys |-> NoEntry]
  /\ inflight = [k \in Keys |-> 0]
  /\ req = [r \in Reqs |-> NewReq]
  /\ fetches = [r \in Reqs |-> NoFetch]
  /\ mq = <<>>
  /\ sent = NothingSent
  /\ calls = [k \in Keys |-> 0]
  /\ late = [k \in Keys |-> FALSE]

Next ==
  \/ \E r \in Reqs, k \in Keys : Arrive(r, k)
  \/ RunJob
  \/ \E f \in Reqs, st \in Statuses, hint \in Hints : Respond(f, st, hint)
  \/ \E f \in Reqs : NetworkError(f)
  \/ \E f \in Reqs : ErrorText(f)
  \/ \E f \in Reqs : TimerFire(f)
  \/ \E f \in Reqs, body \in Bodies : BodyOk(f, body)
  \/ \E f \in Reqs : BodyFail(f)
  \/ Advance

Spec == Init /\ [][Next]_vars

\* the process started with any setting the environment can supply
InitAnyConfig ==
  /\ now = 0
  /\ \E cfg \in AnyConfigs : cacheTtl = cfg[1] /\ staleTtl = cfg[2]
  /\ cache = [k \in Keys |-> NoEntry]
  /\ inflight = [k \in Keys |-> 0]
  /\ req = [r \in Reqs |-> NewReq]
  /\ fetches = [r \in Reqs |-> NoFetch]
  /\ mq = <<>>
  /\ sent = NothingSent
  /\ calls = [k \in Keys |-> 0]
  /\ late = [k \in Keys |-> FALSE]

SpecAnyConfig == InitAnyConfig /\ [][Next]_vars

\* one key served with a long stale window, the upstream answering 2xx, 429
\* or 5xx or failing at network level
InitStale ==
  /\ now = 0
  /\ \E cfg \in StaleConfigs : cacheTtl = cfg[1] /\ staleTtl = cfg[2]
  /\ cache = [k \in Keys |-> NoEntry]
  /\ inflight = [k \in Keys |-> 0]
  /\ req = [r \in Reqs |-> NewReq]
  /\ fetches = [r \in Reqs |-> NoFetch]
  /\ mq = <<>>
  /\ sent = NothingSent
  /\ calls = [k \in Keys |-> 0]
  /\ late = [k \in Keys |-> FALSE]

NextStale ==
  \/ \E r \in Reqs : Arrive(r, 1)
  \/ RunJob
  \/ \E f \in Reqs, st \in StaleStatuses, hint \in Hints : Respond(f, st, hint)
  \/ \E f \in Reqs : NetworkError(f)
  \/ \E f \in Reqs : TimerFire(f)
  \/ \E f \in Reqs, body \in Bodies : BodyOk(f, body)
  \/ \E f \in Reqs : BodyFail(f)
  \/ Advance

SpecStale == InitStale /\ [][NextStale]_vars

\* fetchWithRetry alone, called with every attempt cap up to MaxTries
NextRetry ==
  \/ \E tries \in 0..MaxTries : CallFetch(1, tries)
  \/ \E st \in RetryStatuses, hint \in RetryHints : Respond(1, st, hint)
  \/ NetworkError(1)
  \/ ErrorText(1)
  \/ TimerFire(1)
  \/ Advance

SpecRetry == Init /\ [][NextRetry]_vars

\* the event loop keeps running queued jobs, every upstream call settles,
\* timers fire and time passes; clients need not send anything
UpstreamSettles ==
  \/ \E f \in Reqs, st \in Statuses, hint \in Hints : Respond(f, st, hint)
  \/ \E f \in Reqs : NetworkError(f)
  \/ \E f \in Reqs : ErrorText(f)
  \/ \E f \in Reqs, body \in Bodies : BodyOk(f, body)
  \/ \E f \in Reqs : BodyFail(f)

FairSpec ==
  /\ Spec
  /\ WF_vars(RunJob)
  /\ WF_vars(UpstreamSettles)
  /\ WF_vars(\E f \in Reqs : TimerFire(f))
  /\ WF_vars(Advance)

\* ------------------------------------------------------------ properties
FetchesOf(k) == { f \in Reqs : Outstanding(f) /\ req[f].key = k }

\* C1: at most one fetchWithRetry call for a cache key is outstanding at any
\* instant, whatever the interleaving of requests and upstream outcomes
C1_SingleFlight == \A k \in Keys : Cardinality(FetchesOf(k)) <= 1

\* C2: while every request for a key has arrived before the key's first
\* fetch settled (the key had no cache entry), fetchWithRetry has been called
\* at most once for that key, whether that fetch succeeded or failed
C2_FetcherInvokedOnce == \A k \in Keys : ~late[k] => calls[k] <= 1

\* C3: a request that waited on an in-flight fetch never starts an upstream
\* fetch of its own, and is answered HIT-AFTER-WAIT, STALE or 502, never MISS
C3_WaiterNeverFetches ==
  /\ \A r \in Reqs : req[r].waited => fetches[r].state = "none"
  /\ (sent.r # 0 /\ sent.waited) =>
       (sent.disp \in {"HIT-AFTER-WAIT", "STALE", "502"} /\ ~sent.fetched)

\* C4: whenever no fetch for a key is outstanding, the in-flight table
\* eventually holds no entry for that key (every upstream call settling)
C4_NoDanglingRegistration ==
  \A k \in Keys : (FetchesOf(k) = {}) ~> (inflight[k] = 0)

\* a fetch has failed, its creator was answered and the registration is gone
C4_Witness ==
  /\ sent.r # 0 /\ sent.fetched /\ sent.disp \in {"STALE", "502"}
  /\ FetchesOf(sent.key) = {} /\ inflight[sent.key] = 0

\* the key of the request r that arrives in this step
ArrivalKey(r) == IF req'[r].pc = "done" THEN sent'.key ELSE req'[r].key

\* request r, which created p, resumes in this step after p rejected
OwnerFails(r) ==
  req[r].pc = "fetching" /\ req'[r].pc = "done" /\ fetches[r].state = "rejected"

\* request r, which created p, resumes in this step after p fulfilled
OwnerSucceeds(r) ==
  req[r].pc = "fetching" /\ req'[r].pc = "done" /\ fetches[r].state = "fulfilled"

\* C5: an arriving request is answered HIT, with the stored status and body,
\* exactly when its key has an entry and now <= expiresAt; otherwise, with no
\* fetch in flight, it starts a fetch, and answers MISS when that succeeds
C5_FreshWindow ==
  [][/\ \A r \in Reqs : (req[r].pc = "new" /\ req'[r].pc # "new") =>
          LET e == cache[ArrivalKey(r)]
              fresh == e.has /\ now <= e.expiresAt
              hit == sent'.r = r /\ sent'.disp = "HIT"
          IN /\ fresh <=> hit
             /\ hit => (sent'.status = e.status /\ sent'.body = e.bodyText)
             /\ (~fresh /\ inflight[ArrivalKey(r)] = 0) => fetches'[r].state = "get"
     /\ sent'.disp = "HIT" => req[sent'.r].pc = "new"
     /\ \A r \in Reqs : OwnerSucceeds(r) => (sent'.r = r /\ sent'.disp = "MISS")
    ]_vars

\* a HIT at the very end of the freshness window
C5_Witness ==
  sent.disp = "HIT" /\ cache[sent.key].has /\ now = cache[sent.key].expiresAt

\* C6: a step that answers HIT makes no upstream call and leaves the cache
\* table and the in-flight table as they were
C6_HitNoSideEffects ==
  [][sent'.disp = "HIT" =>
       /\ cache' = cache /\ inflight' = inflight
       /\ fetches' = fetches /\ calls' = calls /\ mq' = mq]_vars

\* a HIT while another request's fetch is registered in the in-flight table
C6_Witness == sent.disp = "HIT" /\ \E k \in Keys : inflight[k] # 0

\* the failure classes for which the stale entry may be served
Transient(st) == st = 429 \/ (st >= 500 /\ st <= 599) \/ st = NoStatus

\* the X-Upstream-Error text of failure status st: "unknown", or the three
\* digits of an HTTP status
Annotation(st) ==
  LET D == <<"0", "1", "2", "3", "4", "5", "6", "7", "8", "9">>
  IN IF st = NoStatus
       THEN "unknown"
       ELSE D[(st \div 100) + 1] \o D[((st \div 10) % 10) + 1] \o D[(st % 10) + 1]

\* C7 (as amended): when the fetch made for a request fails with 429, a 5xx
\* or no status, and the key's entry has now <= staleUntil at the moment the
\* failure is handled, the answer is that entry's status and body with
\* disposition STALE and the failure status as annotation, not a 502
C7_StaleFallback ==
  [][\A r \in Reqs :
       LET e == cache[req[r].key] IN
       (OwnerFails(r) /\ Transient(fetches[r].err) /\ e.has /\ now <= e.staleUntil)
         => /\ sent'.r = r /\ sent'.disp = "STALE"
            /\ sent'.status = e.status /\ sent'.body = e.bodyText
            /\ sent'.xerr = Annotation(fetches[r].err)]_vars

\* C7 (as claimed): the same, for an entry whose staleUntil was still in the
\* future (now < staleUntil) when the request arrived
C7_StaleFallbackAtArrival ==
  [][\A r \in Reqs :
       LET e == req[r].arrEntry IN
       (OwnerFails(r) /\ Transient(fetches[r].err) /\ req[r].arrStaleAhead)
         => /\ sent'.r = r /\ sent'.disp = "STALE"
            /\ sent'.status = e.status /\ sent'.body = e.bodyText
            /\ sent'.xerr = Annotation(fetches[r].err)]_vars

\* the key's second fetch, made by a request that did not wait for another,
\* was answered 503 on both attempts; the entry stored by the first fetch
\* is still within staleUntil and is served STALE, annotated 503
C7_Witness ==
  /\ sent.disp = "STALE" /\ sent.xerr = "503"
  /\ sent.fetched /\ ~sent.waited /\ calls[sent.key] = 2
  /\ cache[sent.key].storedAt < now /\ now <= cache[sent.key].staleUntil
  /\ sent.status = cache[sent.key].status /\ sent.body = cache[sent.key].bodyText

\* C8: when a request's fetch fails and its key has no entry, or an entry
\* with now > staleUntil, the answer is the 502 gateway failure carrying the
\* upstream status (null when there is none), never STALE
C8_HardFailure ==
  [][\A r \in Reqs :
       LET e == cache[req[r].key] IN
       (OwnerFails(r) /\ (~e.has \/ now > e.staleUntil))
         => /\ sent'.r = r /\ sent'.disp = "502" /\ sent'.status = BadGateway
            /\ sent'.upstreamStatus =
                 IF fetches[r].err = NoStatus THEN Null ELSE fetches[r].err]_vars

\* a 502 for a key whose entry is past staleUntil, the upstream having said 429
C8_Witness ==
  /\ sent.disp = "502" /\ sent.upstreamStatus = 429
  /\ cache[sent.key].has /\ now > cache[sent.key].staleUntil

\* C9: when a request's fetch fails with a status other than 429 and outside
\* 500..599, the answer is the 502 gateway failure, never STALE
C9_ClientErrorNeverStale ==
  [][\A r \in Reqs :
       (OwnerFails(r) /\ ~Transient(fetches[r].err))
         => /\ sent'.r = r /\ sent'.disp = "502"
            /\ sent'.upstreamStatus = fetches[r].err]_vars

\* a 502 for an upstream 404 although the key's entry is within staleUntil
C9_Witness ==
  /\ sent.disp = "502" /\ sent.upstreamStatus = 404
  /\ cache[sent.key].has /\ now <= cache[sent.key].staleUntil

\* C10: a call that got k retryable answers and then a 2xx, k + 1 within the
\* attempt cap, returns that 2xx after exactly k + 1 GETs and k backoff
\* delays, one before each further GET
C10_RetrySequence ==
  \A f \in Reqs :
    LET c == fetches[f] IN
    /\ c.state \in {"get", "returned", "body"} =>
         (c.gets = c.retried + 1 /\ c.sleeps = c.retried /\ c.gets <= c.tries)
    /\ c.state \in {"returned", "body"} => IsOk(c.resStatus)
    /\ c.state = "sleep" => (c.sleeps = c.retried - 1 /\ c.gets = c.retried)

\* two retryable answers, then a 2xx: three GETs and two delays
C10_Witness ==
  /\ fetches[1].state = "returned" /\ fetches[1].retried = 2
  /\ fetches[1].gets = 3 /\ fetches[1].sleeps = 2

\* C11: an answer whose status is neither 2xx, 429 nor 5xx is never followed
\* by a backoff delay or another GET: the call only reads the error body and
\* then fails with that status, however many attempts remain
C11_NoRetryOnClientError ==
  [][\A f \in Reqs :
       LET c == fetches[f]
           d == fetches'[f]
       IN /\ (c.state = "get" /\ d.state = "sleep") =>
               (d.resStatus = 429 \/ (d.resStatus >= 500 /\ d.resStatus <= 599))
          /\ (c.state = "get" /\ d.state \in {"returned", "body"}) =>
               (d.resStatus >= 200 /\ d.resStatus <= 299)
          /\ (c.state = "get" /\ d.state = "text") =>
               /\ d.gets = c.gets /\ d.sleeps = c.sleeps /\ d.retried = c.retried
               /\ d.timerAt = 0
          /\ (c.state = "text" /\ d # c) =>
               /\ d.state = "rejected" /\ d.err = c.resStatus
               /\ d.gets = c.gets /\ d.sleeps = c.sleeps /\ d.retried = c.retried
     ]_vars

\* a call allowed more attempts has failed with 404 after one GET and no delay
C11_Witness ==
  /\ fetches[1].state = "rejected" /\ fetches[1].err = 404
  /\ fetches[1].gets = 1 /\ fetches[1].sleeps = 0 /\ fetches[1].tries > 1

\* C12: a call never issues more GETs than its attempt cap; when its last
\* allowed attempt is answered 429 or 5xx it fails, after `tries` GETs, with
\* the status of that last answer; when fetch itself fails, or no attempt is
\* allowed, it fails with an error that carries no status
C12_RetryExhaustion ==
  [][\A f \in Reqs :
       LET c == fetches[f]
           d == fetches'[f]
       IN /\ d.gets <= d.tries
          /\ (c.state = "sleep" /\ d.state = "rejected") =>
               /\ d.err = c.resStatus
               /\ d.err = 429 \/ (d.err >= 500 /\ d.err <= 599)
               /\ d.gets = d.tries /\ d.retried = d.tries
          /\ (c.state \in {"get", "none"} /\ d.state = "rejected") =>
               d.err = NoStatus
     ]_vars

\* three attempts allowed, all answered 429 or 5xx, the last with 503
C12_Witness ==
  /\ fetches[1].state = "rejected" /\ fetches[1].err = 503
  /\ fetches[1].tries = 3 /\ fetches[1].gets = 3 /\ fetches[1].retried = 3

\* the five answers cachedForward can send
Dispositions == {"HIT", "HIT-AFTER-WAIT", "MISS", "STALE", "502"}

\* C13: every upstream call settling, each request that is waiting on a
\* promise is eventually answered; a request is answered once, in the step
\* that ends it, and every answer is HIT, HIT-AFTER-WAIT, MISS, STALE or 502
C13_EveryRequestAnswered ==
  /\ \A r \in Reqs : (req[r].pc \in {"waiting", "fetching"}) ~> (req[r].pc = "done")
  /\ [](sent.r # 0 => (sent.disp \in Dispositions /\ req[sent.r].pc = "done"))
  /\ [][\A r \in Reqs :
          /\ (req[r].pc # "done" /\ req'[r].pc = "done") => sent'.r = r
          /\ req[r].pc = "done" => (req'[r].pc = "done" /\ sent'.r # r)]_vars

\* a request that waited on a fetch that failed, fetched itself, and was
\* answered 502 when its own fetch failed too
C13_Witness ==
  sent.r # 0 /\ sent.waited /\ sent.fetched /\ sent.disp = "502"

\* C14: every cache entry has staleUntil >= expiresAt, whatever values
\* CACHE_TTL_MS and STALE_TTL_MS were given
C14_StaleNotBeforeFresh ==
  \A k \in Keys : cache[k].has => cache[k].staleUntil >= cache[k].expiresAt

\* C15: when the fetch made for a request succeeds, the cache holds an entry
\* for the key with expiresAt = storedAt + CACHE_TTL_MS and staleUntil =
\* storedAt + STALE_TTL_MS carrying the upstream status, and the MISS answer
\* has exactly the stored status and body, those a HIT would send
C15_MissVerbatim ==
  [][\A r \in Reqs : OwnerSucceeds(r) =>
       LET e == cache[req[r].key] IN
       /\ e.has /\ e.status = fetches[r].resStatus
       /\ e.expiresAt = e.storedAt + cacheTtl
       /\ e.staleUntil = e.storedAt + staleTtl
       /\ sent'.r = r /\ sent'.disp = "MISS"
       /\ sent'.status = e.status /\ sent'.body = e.bodyText
       /\ sent'.status = HitResponse(e).status /\ sent'.body = HitResponse(e).body
    ]_vars

\* C16: fetchWithRetry is called only by a request that has not called it
\* before (one that just arrived or was waiting), one call at a time; once
\* its call has failed the request is answered STALE or 502 in that step
\* and no upstream fetch is started
C16_CoordinatorNeverRetries ==
  [][/\ \A k \in Keys :
          \/ calls'[k] = calls[k]
          \/ /\ calls'[k] = calls[k] + 1
             /\ \E r \in Reqs : /\ req[r].pc \in {"new", "waiting"}
                                 /\ req'[r].pc = "fetching" /\ req'[r].key = k
     /\ \A r \in Reqs :
          /\ req[r].pc = "fetching" => req'[r].pc \in {"fetching", "done"}
          /\ req[r].pc = "done" => req'[r].pc = "done"
          /\ OwnerFails(r) =>
               /\ sent'.r = r /\ sent'.disp \in {"STALE", "502"}
               /\ calls' = calls
               /\ \A f \in Reqs : fetches'[f].state = "get" => fetches[f].state = "get"
    ]_vars

\* a request whose one call failed after retries is answered from the stale
\* entry, and nothing is registered for its key afterwards
C16_Witness ==
  /\ sent.fetched /\ sent.disp = "STALE" /\ sent.xerr = "429"
  /\ inflight[sent.key] = 0 /\ FetchesOf(sent.key) = {}

\* C17: the timer set after a retryable answer on attempt i (from 0) is
\* min(10000, hint * 1000) ms when the answer carried a retry-after hint and
\* min(10000, 500 * 2^i) ms when it did not, and never more than 10000 ms
C17_BackoffDuration ==
  [][\A f \in Reqs :
       LET c == fetches[f]
           d == fetches'[f]
           wait == d.timerAt - now
           byHint == IF d.hint * 1000 < 10000 THEN d.hint * 1000 ELSE 10000
           byAttempt == IF 500 * (2 ^ c.i) < 10000 THEN 500 * (2 ^ c.i) ELSE 10000
       IN (c.state = "get" /\ d.state = "sleep") =>
            /\ wait = IF d.hint # NoHint THEN byHint ELSE byAttempt
            /\ wait >= 0 /\ wait <= 10000
    ]_vars

\* the sixth attempt answered 429 or 5xx without a hint: 500 * 2^5 ms is cut
\* down to 10000 ms
C17_Witness ==
  /\ fetches[1].state = "sleep" /\ fetches[1].hint = NoHint /\ fetches[1].i = 5
  /\ fetches[1].timerAt = now + 10000

\* C18: every cache entry has a 2xx status; the cache changes only in the
\* step that ends a successful fetch's body read, which stores the entry at
\* the current time; a step in which a fetch fails, or one that answers a
\* request, leaves the cache as it was; HIT, HIT-AFTER-WAIT and STALE
\* answers carry a 2xx status
C18_OnlySuccessWritesCache ==
  /\ [](\A k \in Keys :
          cache[k].has => (cache[k].status >= 200 /\ cache[k].status <= 299))
  /\ [](sent.disp \in {"HIT", "HIT-AFTER-WAIT", "STALE"} =>
          (sent.status >= 200 /\ sent.status <= 299))
  /\ [][/\ \A k \in Keys : cache'[k] # cache[k] =>
             \E f \in Reqs :
               /\ fetches[f].state = "body" /\ fetches'[f].state = "fulfilled"
               /\ req[f].key = k /\ cache'[k].has /\ cache'[k].storedAt = now
               /\ cache'[k].status = fetches[f].resStatus
        /\ (\E f \in Reqs : fetches[f].state # "rejected"
                             /\ fetches'[f].state = "rejected") => cache' = cache
        /\ sent'.r # 0 => cache' = cache
       ]_vars

\* a STALE answer after a network-level failure: the entry served was
\* stored earlier and still has the windows it was stored with
C18_Witness ==
  LET e == cache[sent.key] IN
  /\ sent.disp = "STALE" /\ sent.xerr = "unknown"
  /\ e.has /\ e.storedAt < now /\ e.expiresAt = e.storedAt + cacheTtl
  /\ e.staleUntil = e.storedAt + staleTtl

\* C19: while the promise made by a request is pending, the in-flight table
\* holds it under the request's key, and an entry leaves the table only in
\* the step that answers the request that registered it
C19_RegistrationCoversFetch ==
  /\ [](\A f \in Reqs :
          (Pending(f) /\ ~fetches[f].direct) => inflight[req[f].key] = f)
  /\ [][\A k \in Keys : (inflight[k] # 0 /\ inflight'[k] # inflight[k]) =>
          /\ inflight'[k] = 0
          /\ req[inflight[k]].pc = "fetching" /\ req'[inflight[k]].pc = "done"
       ]_vars

\* C20: a call sleeps after every 429 or 5xx answer, the one to its last
\* attempt included: it never fails straight from such an answer, and when it
\* fails out of a sleep the timer has run out and it has made as many GETs
\* and sleeps as attempts were allowed; whether the request is then answered
\* STALE is decided by now <= staleUntil at the time of that failure
C20_SleepAfterLastAttempt ==
  [][\A f \in Reqs :
       LET c == fetches[f]
           d == fetches'[f]
           e == cache[req[f].key]
       IN /\ (c.state = "get" /\ d.state = "rejected") => d.err = NoStatus
          /\ (c.state = "sleep" /\ d.state = "get") =>
               (now >= c.timerAt /\ d.sleeps = c.sleeps + 1 /\ d.gets = c.gets + 1)
          /\ (c.state = "sleep" /\ d.state = "rejected") =>
               /\ now >= c.timerAt
               /\ d.gets = d.tries /\ d.sleeps = d.tries
          /\ OwnerFails(f) =>
               (sent'.disp = "STALE" <=>
                  (Transient(c.err) /\ e.has /\ now <= e.staleUntil))
    ]_vars

\* the entry was within staleUntil when the request arrived; both attempts
\* were answered 429 or 5xx, and after the second sleep it no longer is
C20_Witness ==
  \E r \in Reqs :
    /\ req[r].pc = "fetching" /\ req[r].arrStaleOk
    /\ fetches[r].state = "rejected" /\ fetches[r].err = 429
    /\ fetches[r].gets = Tries /\ fetches[r].sleeps = Tries
    /\ now > cache[req[r].key].staleUntil

====
